---- MODULE Spec2Model ----
(***************************************************************************)
(* A model of the XOR network of xor_pointers.c (src/unnamed/part_000) and *)
(* of the matrix library neural_net.h (src/src/unsafe/xor_unsafe.c, lines  *)
(* 204-389).                                                               *)
(*                                                                         *)
(* Numbers.  A C float is modelled as an integer count of 1/Scale units    *)
(* (fixed point); every float operation rounds its result to the nearest   *)
(* unit, as every float operation rounds to the nearest float.  sigmoidf   *)
(* is 1/(1+exp(-x)) tabulated at half-unit steps of x and interpolated.    *)
(*                                                                         *)
(* Memory.  The heap is a map from buffer names to cell sequences.  A      *)
(* pointer is a buffer name with a cell offset; a Mat is the C struct      *)
(* {rows, cols, stride, es}.  malloc hands out whole quanta, so a buffer   *)
(* of n floats has Usable(n) >= n cells: the cells past n are the slack of *)
(* the chunk.  An access past n is undefined behaviour; the model gives it *)
(* the two outcomes a build produces: the run is aborted (a checked        *)
(* build), or the access lands in the slack of the chunk.  Memory from     *)
(* malloc is not initialised: its cells start with an arbitrary value.     *)
(***************************************************************************)
EXTENDS Integers, Sequences, FiniteSets, TLC

\* ------------------------------------------------------------- numbers

\* One float unit: 1.0f is Scale.
Scale == 1000

Abs(x) == IF x < 0 THEN -x ELSE x

\* n/d rounded to the nearest unit (halves away from zero), d > 0.
RDiv(n, d) == IF n >= 0 THEN (2 * n + d) \div (2 * d)
                        ELSE -((2 * (-n) + d) \div (2 * d))

\* x * y of two floats.
FMul(x, y) == RDiv(x * y, Scale)

\* x / y of two floats, y > 0.
FDiv(x, y) == RDiv(x * Scale, y)

\* sqrt of a float.
FSqrt(x) == CHOOSE r \in 0..(4 * Scale) :
               /\ r * r <= x * Scale
               /\ (r + 1) * (r + 1) > x * Scale

\* 1/(1+exp(-x)) at x = 0, 0.5, 1, ..., 8.
SigTable == <<500, 622, 731, 818, 881, 924, 953, 971, 982,
              989, 993, 996, 998, 998, 999, 999, 999>>

SigStep == Scale \div 2

SigPos(x) == LET k == x \div SigStep
                 r == x % SigStep
             IN IF k + 2 > Len(SigTable) THEN SigTable[Len(SigTable)]
                ELSE SigTable[k + 1]
                     + RDiv((SigTable[k + 2] - SigTable[k + 1]) * r, SigStep)

sigmoidf(x) == IF x >= 0 THEN SigPos(x) ELSE Scale - SigPos(-x)

\* -------------------------------------------------------------- memory

\* Buffer names are pairs: <<struct, field>> for a matrix chunk, <<struct,
\* "struct">> for a malloc'ed Xor, TD for the static array td.
NULL == [buf |-> <<"null", "null">>, off |-> 0]

TD == <<"static", "td">>

Ptr(b, o) == [buf |-> b, off |-> o]

\* The floats of one malloc quantum (16 bytes).
Quantum == 4

\* The cells of the chunk malloc returns for n floats.
Usable(n) == ((n + Quantum - 1) \div Quantum) * Quantum

Mat(r, c, s, p) == [rows |-> r, cols |-> c, stride |-> s, es |-> p]

\* The cell MAT_AT(M, i, j) names: (M).es[(i)*(M).stride + (j)].
MAT_AT(M, i, j) == Ptr(M.es.buf, M.es.off + i * M.stride + j)

\* Whether the chunk holds the cell.
InChunk(h, p) == /\ p.buf \in DOMAIN h
                 /\ p.off >= 0
                 /\ p.off < Len(h[p.buf])

Load(h, p) == IF InChunk(h, p) THEN h[p.buf][p.off + 1] ELSE 0

Store(h, p, v) == IF InChunk(h, p)
                  THEN [h EXCEPT ![p.buf][p.off + 1] = v]
                  ELSE h

\* F(v) with v computed first, and once: one statement of the code ends
\* before the next begins.
Let(v, F(_)) == CHOOSE r \in {F(x) : x \in {v}} : TRUE

\* --------------------------------------------------- the matrix library

\* The index pairs of "for i < n1: for j < n2", in the order of the loop.
Loop2(n1, n2) == [x \in 1..(n1 * n2) |-> <<(x - 1) \div n2, (x - 1) % n2>>]

\* The index triples of "for i < n1: for j < n2: for k < n3".
Loop3(n1, n2, n3) ==
    [x \in 1..(n1 * n2 * n3) |->
        <<(x - 1) \div (n2 * n3), ((x - 1) \div n3) % n2, (x - 1) % n3>>]

\* (mat_dot with its last assertion forgotten.)
mat_dot_asserts_weak(dst, a, b) == /\ a.cols = b.rows
                                   /\ dst.rows = a.rows

\* The three assertions mat_dot makes before its loops.
mat_dot_asserts(dst, a, b) == /\ a.cols = b.rows
                              /\ dst.rows = a.rows
                              /\ dst.cols = b.cols

RECURSIVE mat_dot_loop(_, _, _, _, _, _)
mat_dot_loop(h, dst, a, b, idx, x) ==
    IF x > Len(idx) THEN h
    ELSE LET i == idx[x][1]
             j == idx[x][2]
             k == idx[x][3]
             step(hv) ==
                 Store(hv, MAT_AT(dst, i, j),
                       Load(hv, MAT_AT(dst, i, j))
                       + FMul(Load(hv, MAT_AT(a, i, k)), Load(hv, MAT_AT(b, k, j))))
         IN Let(h, LAMBDA hv : mat_dot_loop(step(hv), dst, a, b, idx, x + 1))

\* mat_dot past its assertions: dst[i][j] += a[i][k] * b[k][j].
mat_dot(h, dst, a, b) ==
    mat_dot_loop(h, dst, a, b, Loop3(dst.rows, dst.cols, a.cols), 1)

RECURSIVE mat_sum_loop(_, _, _, _, _)
mat_sum_loop(h, dst, a, idx, x) ==
    IF x > Len(idx) THEN h
    ELSE LET i == idx[x][1]
             j == idx[x][2]
             step(hv) ==
                 Store(hv, MAT_AT(dst, i, j),
                       Load(hv, MAT_AT(dst, i, j)) + Load(hv, MAT_AT(a, i, j)))
         IN Let(h, LAMBDA hv : mat_sum_loop(step(hv), dst, a, idx, x + 1))

mat_sum_asserts(dst, a) == dst.rows = a.rows /\ dst.cols = a.cols

mat_sum(h, dst, a) == mat_sum_loop(h, dst, a, Loop2(dst.rows, dst.cols), 1)

RECURSIVE mat_sig_loop(_, _, _, _)
mat_sig_loop(h, m, idx, x) ==
    IF x > Len(idx) THEN h
    ELSE LET p == MAT_AT(m, idx[x][1], idx[x][2])
             step(hv) == Store(hv, p, sigmoidf(Load(hv, p)))
         IN Let(h, LAMBDA hv : mat_sig_loop(step(hv), m, idx, x + 1))

mat_sig(h, m) == mat_sig_loop(h, m, Loop2(m.rows, m.cols), 1)

RECURSIVE mat_copy_loop(_, _, _, _, _)
mat_copy_loop(h, dst, src, idx, x) ==
    IF x > Len(idx) THEN h
    ELSE LET i == idx[x][1]
             j == idx[x][2]
             step(hv) == Store(hv, MAT_AT(dst, i, j), Load(hv, MAT_AT(src, i, j)))
         IN Let(h, LAMBDA hv : mat_copy_loop(step(hv), dst, src, idx, x + 1))

mat_copy_asserts(dst, src) == dst.rows = src.rows /\ dst.cols = src.cols

mat_copy(h, dst, src) == mat_copy_loop(h, dst, src, Loop2(dst.rows, dst.cols), 1)

\* A view of one row: the same buffer, the same stride.
mat_row(m, row) == Mat(1, m.cols, m.stride, MAT_AT(m, row, 0))

\* ------------------------------------------------------- the Xor network

Fields == <<"a0", "w1", "b1", "a1", "w2", "b2", "a2">>

\* The shapes xor_alloc gives the seven matrices, in its order.
Shape == [a0 |-> <<1, 2>>, w1 |-> <<2, 2>>, b1 |-> <<1, 2>>, a1 |-> <<1, 2>>,
          w2 |-> <<2, 1>>, b2 |-> <<1, 1>>, a2 |-> <<1, 1>>]

\* The matrices finite_diff and xor_learn walk, in their order.
ParamFields == <<"w1", "b1", "w2", "b2">>

Range(f) == {f[x] : x \in DOMAIN f}

\* mat_alloc(rows, cols) with malloc returning chunk b.
mat_alloc(b, rows, cols) == Mat(rows, cols, cols, Ptr(b, 0))

\* The Xor struct after xor_alloc(x).
xor_alloc(x) ==
    [f \in Range(Fields) |-> mat_alloc(<<x, f>>, Shape[f][1], Shape[f][2])]
        @@ [owns_matrices |-> 1]

\* (mat_free leaving the pointer in place.)
mat_free_dangling(M) == Mat(0, 0, 0, M.es)

\* mat_free(&M): the struct it leaves.
mat_free(M) == Mat(0, 0, 0, NULL)

\* (xor_free with the mat_free of b2 forgotten.)
xor_free_list_short == <<"a0", "a1", "a2", "w1", "b1", "w2">>

\* The matrices xor_free hands to mat_free, in its order.
xor_free_list == <<"a0", "a1", "a2", "w1", "b1", "w2", "b2">>

forward_xor_asserts(X) ==
    /\ mat_dot_asserts(X.a1, X.a0, X.w1)
    /\ mat_sum_asserts(X.a1, X.b1)
    /\ mat_dot_asserts(X.a2, X.a1, X.w2)
    /\ mat_sum_asserts(X.a2, X.b2)

forward_xor(h, X) ==
    LET h1 == mat_dot(h, X.a1, X.a0, X.w1)
        h2 == mat_sum(h1, X.a1, X.b1)
        h3 == mat_sig(h2, X.a1)
        h4 == mat_dot(h3, X.a2, X.a1, X.w2)
        h5 == mat_sum(h4, X.a2, X.b2)
    IN mat_sig(h5, X.a2)

cost_asserts(X, ti, to) == /\ ti.rows = to.rows
                           /\ to.cols = X.a2.cols
                           /\ ti.cols = X.a0.cols

RECURSIVE cost_cols(_, _, _, _, _)
cost_cols(h, X, y, q, jj) ==
    IF jj >= q THEN 0
    ELSE LET d == Load(h, MAT_AT(X.a2, 0, jj)) - Load(h, MAT_AT(y, 0, jj))
         IN FMul(d, d) + cost_cols(h, X, y, q, jj + 1)

\* The rows i, i+1, ..., n-1 of cost's loop: [c, h] when it ends.
RECURSIVE cost_rows(_, _, _, _, _, _)
cost_rows(h, X, ti, to, ii, acc_c) ==
    IF ii >= ti.rows THEN [c |-> acc_c, h |-> h]
    ELSE LET x == mat_row(ti, ii)
             y == mat_row(to, ii)
         IN Let(forward_xor(mat_copy(h, X.a0, x), X),
                LAMBDA h1 : cost_rows(h1, X, ti, to, ii + 1,
                                      acc_c + cost_cols(h1, X, y, to.cols, 0)))

\* cost(m, ti, to) past its assertions: the value returned and the heap left.
cost(h, X, ti, to) ==
    Let(cost_rows(h, X, ti, to, 0, 0),
        LAMBDA r : [c |-> FDiv(r.c, ti.rows * Scale), h |-> r.h])

\* ------------------------------------------------------ random numbers

\* rand() is a linear congruential generator over 0..RAND_MAX; srand sets
\* its state.
RAND_MAX == 65536

rand(r) == (r * 75 + 74) % (RAND_MAX + 1)

\* (float) rand() / (float) RAND_MAX, for the value r rand() returned.
rand_float(r) == RDiv(r * Scale, RAND_MAX)

xavier_init(inputs, outputs, r) ==
    LET limit == FSqrt(FDiv(6 * Scale, (inputs + outputs) * Scale))
    IN FMul(FMul(rand_float(r), 2 * Scale), limit) - limit

\* mat_xavier_init(m, inputs, outputs) from generator state r: the heap and
\* the generator state it leaves.
RECURSIVE mat_xavier_init_loop(_, _, _, _, _, _, _)
mat_xavier_init_loop(h, r, m, inputs, outputs, idx, x) ==
    IF x > Len(idx) THEN [h |-> h, r |-> r]
    ELSE LET r1 == rand(r)
             hn == Store(h, MAT_AT(m, idx[x][1], idx[x][2]),
                         xavier_init(inputs, outputs, r1))
         IN Let(<<hn, r1>>, LAMBDA v : mat_xavier_init_loop(
                    v[1], v[2], m, inputs, outputs, idx, x + 1))

mat_xavier_init(h, r, m, inputs, outputs) ==
    mat_xavier_init_loop(h, r, m, inputs, outputs, Loop2(m.rows, m.cols), 1)

RECURSIVE mat_rand_loop(_, _, _, _, _, _, _)
mat_rand_loop(h, r, m, low, high, idx, x) ==
    IF x > Len(idx) THEN [h |-> h, r |-> r]
    ELSE LET r1 == rand(r)
             hn == Store(h, MAT_AT(m, idx[x][1], idx[x][2]),
                         FMul(rand_float(r1), high - low) + low)
         IN Let(<<hn, r1>>, LAMBDA v : mat_rand_loop(
                    v[1], v[2], m, low, high, idx, x + 1))

mat_rand(h, r, m, low, high) ==
    mat_rand_loop(h, r, m, low, high, Loop2(m.rows, m.cols), 1)

\* ------------------------------------------- finite_diff and xor_learn

\* The slots the four loop nests of finite_diff and of xor_learn visit, in
\* order: for each matrix M, for i < M.cols, for j < M.rows, MAT_AT(M, i, j).
RECURSIVE param_slots(_, _)
param_slots(X, n) ==
    IF n > Len(ParamFields) THEN <<>>
    ELSE LET f  == ParamFields[n]
             lp == Loop2(X[f].cols, X[f].rows)
         IN [x \in 1..Len(lp) |-> [f |-> f, i |-> lp[x][1], j |-> lp[x][2]]]
            \o param_slots(X, n + 1)

\* saved = MAT_AT(m, i, j); MAT_AT(m, i, j) += eps.
fd_perturb(h, Xm, s, eps) ==
    LET p == MAT_AT(Xm[s.f], s.i, s.j)
    IN Let(h, LAMBDA hv : [saved |-> Load(hv, p),
                           h     |-> Store(hv, p, Load(hv, p) + eps)])

\* MAT_AT(g, i, j) = (cost(m, ti, to) - c) / eps; MAT_AT(m, i, j) = saved.
fd_estimate(h, Xm, Xg, s, c, saved, ti, to, eps) ==
    Let(cost(h, Xm, ti, to),
        LAMBDA r :
            [c1 |-> r.c,
             h  |-> Store(Store(r.h, MAT_AT(Xg[s.f], s.i, s.j),
                                FDiv(r.c - c, eps)),
                          MAT_AT(Xm[s.f], s.i, s.j), saved)])

\* The slots k, k+1, ... of finite_diff, one after the other.
RECURSIVE finite_diff_loop(_, _, _, _, _, _, _, _, _)
finite_diff_loop(h, Xm, Xg, ti, to, eps, c, slots, k) ==
    IF k > Len(slots) THEN h
    ELSE Let(fd_perturb(h, Xm, slots[k], eps),
             LAMBDA pt :
                 finite_diff_loop(
                     fd_estimate(pt.h, Xm, Xg, slots[k], c, pt.saved,
                                 ti, to, eps).h,
                     Xm, Xg, ti, to, eps, c, slots, k + 1))

\* finite_diff(m, g, ti, to, eps) as one call: the heap it leaves.
finite_diff(h, Xm, Xg, ti, to, eps) ==
    Let(cost(h, Xm, ti, to),
        LAMBDA r : finite_diff_loop(r.h, Xm, Xg, ti, to, eps, r.c,
                                    param_slots(Xm, 1), 1))

\* MAT_AT(m, i, j) -= rate * MAT_AT(g, i, j).
xor_learn_slot(h, Xm, Xg, s, rate) ==
    LET p == MAT_AT(Xm[s.f], s.i, s.j)
    IN Let(h, LAMBDA hv :
              Store(hv, p, Load(hv, p)
                           - FMul(rate, Load(hv, MAT_AT(Xg[s.f], s.i, s.j)))))

RECURSIVE xor_learn_loop(_, _, _, _, _, _)
xor_learn_loop(h, Xm, Xg, rate, slots, k) ==
    IF k > Len(slots) THEN h
    ELSE xor_learn_loop(xor_learn_slot(h, Xm, Xg, slots[k], rate),
                        Xm, Xg, rate, slots, k + 1)

xor_learn(h, Xm, Xg, rate) ==
    xor_learn_loop(h, Xm, Xg, rate, param_slots(Xm, 1), 1)

\* ---------------------------------------------------- malloc and free

Structs == {"m", "g"}

StructBuf(x) == <<x, "struct">>

MatBufs(x) == {<<x, f>> : f \in Range(Fields)}

Bufs == {TD} \cup UNION {MatBufs(x) \cup {StructBuf(x)} : x \in Structs}

\* malloc of n floats as chunk b, every cell holding v.
malloc_cells(n, v) == [k \in 1..Usable(n) |-> v]

malloc_chunk(n) == [st |-> "live", size |-> n, frees |-> 0]

\* free(p) is defined for the start of a live chunk, which it releases; any
\* other non-null pointer is undefined: past an abort, the chunk is corrupt.
free_defined(ch, p) == /\ p.buf \in DOMAIN ch
                       /\ p.off = 0
                       /\ ch[p.buf].st = "live"

free(ch, p) ==
    IF p.buf \notin DOMAIN ch THEN ch
    ELSE [ch EXCEPT ![p.buf] =
             [st    |-> IF free_defined(ch, p) THEN "freed" ELSE "corrupt",
              size  |-> @.size,
              frees |-> @.frees + 1]]

\* mat_free(&M): the chunks it leaves.
mat_free_chunks(ch, M) == IF M.es # NULL THEN free(ch, M.es) ELSE ch

RECURSIVE xor_free_loop(_, _, _)
xor_free_loop(X, ch, n) ==
    IF n > Len(xor_free_list) THEN [X |-> X, ch |-> ch]
    ELSE LET f == xor_free_list[n]
         IN Let(<<X, ch>>, LAMBDA v :
                xor_free_loop([v[1] EXCEPT ![f] = mat_free(v[1][f])],
                              mat_free_chunks(v[2], v[1][f]), n + 1))

\* xor_free(m): the struct and the chunks it leaves.
xor_free(X, ch) ==
    Let(IF X.owns_matrices # 0 THEN xor_free_loop(X, ch, 1)
                               ELSE [X |-> X, ch |-> ch],
        LAMBDA r : [X |-> [r.X EXCEPT !.owns_matrices = 0], ch |-> r.ch])

\* ------------------------------------------------- element accesses

\* One evaluation of MAT_AT(m, i, j).
Acc(M, i, j) == [m |-> M, i |-> i, j |-> j]

loop_acc(M, n1, n2) == {Acc(M, q[1], q[2]) : q \in Range(Loop2(n1, n2))}

mat_dot_acc(dst, a, b) ==
    LET idx == Range(Loop3(dst.rows, dst.cols, a.cols))
    IN {Acc(dst, t[1], t[2]) : t \in idx}
       \cup {Acc(a, t[1], t[3]) : t \in idx}
       \cup {Acc(b, t[3], t[2]) : t \in idx}

mat_sum_acc(dst, a) ==
    loop_acc(dst, dst.rows, dst.cols) \cup loop_acc(a, dst.rows, dst.cols)

mat_copy_acc(dst, src) ==
    loop_acc(dst, dst.rows, dst.cols) \cup loop_acc(src, dst.rows, dst.cols)

forward_xor_acc(X) ==
    mat_dot_acc(X.a1, X.a0, X.w1) \cup mat_sum_acc(X.a1, X.b1)
    \cup loop_acc(X.a1, X.a1.rows, X.a1.cols)
    \cup mat_dot_acc(X.a2, X.a1, X.w2) \cup mat_sum_acc(X.a2, X.b2)
    \cup loop_acc(X.a2, X.a2.rows, X.a2.cols)

cost_acc(X, ti, to) ==
    UNION {{Acc(ti, ii, 0), Acc(to, ii, 0)}
           \cup mat_copy_acc(X.a0, mat_row(ti, ii))
           \cup forward_xor_acc(X)
           \cup UNION {{Acc(X.a2, 0, jj), Acc(mat_row(to, ii), 0, jj)}
                       : jj \in 0..(to.cols - 1)}
           : ii \in 0..(ti.rows - 1)}

slot_acc(Xm, Xg, s) == {Acc(Xm[s.f], s.i, s.j), Acc(Xg[s.f], s.i, s.j)}

xor_learn_acc(Xm, Xg) ==
    UNION {slot_acc(Xm, Xg, s) : s \in Range(param_slots(Xm, 1))}

\* The access keeps to the rows and columns of its matrix.
InIndex(a) == /\ a.i >= 0 /\ a.i < a.m.rows
              /\ a.j >= 0 /\ a.j < a.m.cols

\* The access keeps to the floats the chunk was asked for.
InBuffer(ch, a) == LET p == MAT_AT(a.m, a.i, a.j)
                   IN /\ p.buf \in DOMAIN ch
                      /\ p.off >= 0
                      /\ p.off < ch[p.buf].size

\* The access reaches a chunk that has been released.
AfterFree(ch, a) == /\ a.m.es.buf \in DOMAIN ch
                    /\ ch[a.m.es.buf].st \in {"freed", "corrupt"}

\* ------------------------------------------------------------- state

VARIABLES
    pc,     \* where main (or the call under study) stands
    mem,    \* the cells of every chunk, and of td
    chunk,  \* per chunk: none/live/freed/corrupt/static, floats asked for, frees
    xo,     \* the Xor structs *m and *g
    rng,    \* the state of rand()
    it,     \* the training loop's counter i
    fd,     \* finite_diff's locals: c, saved, and the slot it stands at
    tt,     \* the truth-table loops' position, 2*i + j
    acc,    \* history: the element accesses of the last step
    uaf,    \* history: some access reached released memory
    snap,   \* history: mem when the running finite_diff or xor_learn began
    gw,     \* history: the gradient writes of the running finite_diff
    lw,     \* history: the cells the last xor_learn wrote, in order
    call,   \* the arguments of a library call studied on its own
    mem2,   \* the heap of a second run, for comparing two runs
    hist    \* history: the results of the calls studied on their own

progVars == <<pc, mem, chunk, xo, rng, it, fd, tt>>
ghostVars == <<acc, uaf, snap, gw, lw>>
libVars == <<call, mem2, hist>>
vars == <<pc, mem, chunk, xo, rng, it, fd, tt, acc, uaf, snap, gw, lw,
          call, mem2, hist>>

\* ------------------------------------------------------------ bounds

\* The seeds mach_absolute_time() may give srand: 0..MaxSeed.
MaxSeed == 23

\* The training loop runs MaxIter times in the model (100*1000 in main).
MaxIter == 2

\* The values a cell fresh from malloc may hold.
Garbage == {0, Scale}

\* --------------------------------------------------------------- main

\* float td[]: the XOR table, three floats a row.
td == <<0, 0, 0,
        0, Scale, Scale,
        Scale, 0, Scale,
        Scale, Scale, 0>>

td_stride == 3

td_rows == Len(td) \div td_stride

main_ti == Mat(td_rows, 2, td_stride, Ptr(TD, 0))

main_to == Mat(td_rows, 1, td_stride, Ptr(TD, 2))

\* float eps = 1e-1f; float rate = 1e-1f.
Eps == 100

Rate == 100

\* mat_rand(m->b1, -0.5f, 0.5f).
BiasLow == -500

BiasHigh == 500

\* The rows of the truth table main prints: i < 2, j < 2.
TableRows == 2 * 2

NoXor == [f \in Range(Fields) |-> Mat(0, 0, 0, NULL)] @@ [owns_matrices |-> 0]

NoChunk == [st |-> "none", size |-> 0, frees |-> 0]

StaticChunk == [st |-> "static", size |-> Len(td), frees |-> 0]

Init ==
    /\ pc = "start"
    /\ mem = [b \in Bufs |-> IF b = TD THEN td ELSE <<>>]
    /\ chunk = [b \in Bufs |-> IF b = TD THEN StaticChunk ELSE NoChunk]
    /\ xo = [x \in Structs |-> NoXor]
    /\ rng = 0
    /\ it = 0
    /\ fd = [c |-> 0, saved |-> 0, k |-> 0]
    /\ tt = 0
    /\ acc = {}
    /\ uaf = FALSE
    /\ snap = mem
    /\ gw = <<>>
    /\ lw = <<>>
    /\ call = <<>>
    /\ mem2 = <<>>
    /\ hist = <<>>

\* The step made the accesses accs and dereferenced the structs xs.
Touch(accs, xs) ==
    /\ acc' = accs
    /\ uaf' = \/ uaf
              \/ \E a \in accs : AfterFree(chunk, a)
              \/ \E x \in xs : chunk[StructBuf(x)].st # "live"

\* The assertions a call of cost runs into.
cost_ok(X, ti, to) ==
    /\ cost_asserts(X, ti, to)
    /\ ti.rows > 0 => mat_copy_asserts(X.a0, mat_row(ti, 0))
    /\ ti.rows > 0 => forward_xor_asserts(X)

\* srand((unsigned int) seed).
Srand ==
    /\ pc = "start"
    /\ \E seed \in 0..MaxSeed : rng' = seed
    /\ pc' = "alloc_m"
    /\ UNCHANGED <<mem, chunk, xo, it, fd, tt>>
    /\ UNCHANGED ghostVars
    /\ UNCHANGED libVars

\* Xor *x = NN_MALLOC(sizeof(Xor)); xor_alloc(x).
XorAllocStep(x, here, next) ==
    /\ pc = here
    /\ \E v \in Garbage :
          mem' = [b \in Bufs |->
                     IF b \in MatBufs(x)
                     THEN malloc_cells(Shape[b[2]][1] * Shape[b[2]][2], v)
                     ELSE mem[b]]
    /\ chunk' = [b \in Bufs |->
                    IF b \in MatBufs(x)
                    THEN malloc_chunk(Shape[b[2]][1] * Shape[b[2]][2])
                    ELSE IF b = StructBuf(x) THEN malloc_chunk(0)
                    ELSE chunk[b]]
    /\ xo' = [xo EXCEPT ![x] = xor_alloc(x)]
    /\ pc' = next
    /\ Touch({}, {})
    /\ UNCHANGED <<rng, it, fd, tt, snap, gw, lw>>
    /\ UNCHANGED libVars

AllocM == XorAllocStep("m", "alloc_m", "alloc_g")

AllocG == XorAllocStep("g", "alloc_g", "init_w1")

\* A step of main that leaves heap r.h and generator state r.r.
InitStep(here, next, r, M) ==
    /\ pc = here
    /\ mem' = r.h
    /\ rng' = r.r
    /\ pc' = next
    /\ Touch(loop_acc(M, M.rows, M.cols), {"m"})
    /\ UNCHANGED <<chunk, xo, it, fd, tt, snap, gw, lw>>
    /\ UNCHANGED libVars

InitW1 == InitStep("init_w1", "init_b1",
                   mat_xavier_init(mem, rng, xo["m"].w1,
                                   xo["m"].a0.cols, xo["m"].a1.cols),
                   xo["m"].w1)

InitB1 == InitStep("init_b1", "init_w2",
                   mat_rand(mem, rng, xo["m"].b1, BiasLow, BiasHigh),
                   xo["m"].b1)

InitW2 == InitStep("init_w2", "init_b2",
                   mat_xavier_init(mem, rng, xo["m"].w2,
                                   xo["m"].a1.cols, xo["m"].a2.cols),
                   xo["m"].w2)

InitB2 == InitStep("init_b2", "cost0",
                   mat_rand(mem, rng, xo["m"].b2, BiasLow, BiasHigh),
                   xo["m"].b2)

\* A call cost(m, ti, to) of main whose value is printed or dropped.
CostStep(here, next) ==
    /\ pc = here
    /\ IF cost_ok(xo["m"], main_ti, main_to)
       THEN /\ mem' = cost(mem, xo["m"], main_ti, main_to).h
            /\ pc' = next
       ELSE /\ mem' = mem
            /\ pc' = "abort"
    /\ Touch(cost_acc(xo["m"], main_ti, main_to), {"m"})
    /\ UNCHANGED <<chunk, xo, rng, fd, tt, snap, gw, lw>>
    /\ UNCHANGED libVars

Cost0 == CostStep("cost0", "loop") /\ it' = 0

\* (The loop test letting go one iteration early.)
TrainLoopShort ==
    /\ pc = "loop"
    /\ pc' = IF it + 1 < MaxIter THEN "fd_base" ELSE "cost_end"
    /\ UNCHANGED <<mem, chunk, xo, rng, it, fd, tt>>
    /\ UNCHANGED ghostVars
    /\ UNCHANGED libVars

\* for (size_t i = 0; i < 100*1000; ++i).
TrainLoop ==
    /\ pc = "loop"
    /\ pc' = IF it < MaxIter THEN "fd_base" ELSE "cost_end"
    /\ UNCHANGED <<mem, chunk, xo, rng, it, fd, tt>>
    /\ UNCHANGED ghostVars
    /\ UNCHANGED libVars

\* The trainable cells of struct x: every entry (r, c) of w1, b1, w2, b2.
TrainCells(x) ==
    UNION {{MAT_AT(xo[x][f], r, c) : r \in 0..(xo[x][f].rows - 1),
                                     c \in 0..(xo[x][f].cols - 1)}
           : f \in Range(ParamFields)}

\* finite_diff: float c = cost(m, ti, to).
FdBase ==
    /\ pc = "fd_base"
    /\ IF cost_ok(xo["m"], main_ti, main_to)
       THEN \E r \in {cost(mem, xo["m"], main_ti, main_to)} :
               /\ mem' = r.h
               /\ fd' = [fd EXCEPT !.c = r.c, !.k = 1]
               /\ pc' = IF Len(param_slots(xo["m"], 1)) = 0
                        THEN "learn" ELSE "fd_perturb"
       ELSE /\ mem' = mem
            /\ fd' = fd
            /\ pc' = "abort"
    /\ snap' = mem
    /\ gw' = <<>>
    /\ Touch(cost_acc(xo["m"], main_ti, main_to), {"m"})
    /\ UNCHANGED <<chunk, xo, rng, it, tt, lw>>
    /\ UNCHANGED libVars

\* The slot finite_diff stands at.
FdSlot == param_slots(xo["m"], 1)[fd.k]

\* finite_diff: saved = MAT_AT(m->M, i, j); MAT_AT(m->M, i, j) += eps.
FdPerturb ==
    /\ pc = "fd_perturb"
    /\ \E r \in {fd_perturb(mem, xo["m"], FdSlot, Eps)} :
          /\ mem' = r.h
          /\ fd' = [fd EXCEPT !.saved = r.saved]
    /\ pc' = "fd_estimate"
    /\ Touch({Acc(xo["m"][FdSlot.f], FdSlot.i, FdSlot.j)}, {"m"})
    /\ UNCHANGED <<chunk, xo, rng, it, tt, snap, gw, lw>>
    /\ UNCHANGED libVars

\* finite_diff: MAT_AT(g->M, i, j) = (cost(m, ti, to) - c) / eps;
\* MAT_AT(m->M, i, j) = saved; and the loops' next slot.
FdEstimate ==
    /\ pc = "fd_estimate"
    /\ IF cost_ok(xo["m"], main_ti, main_to)
       THEN \E r \in {fd_estimate(mem, xo["m"], xo["g"], FdSlot, fd.c,
                                    fd.saved, main_ti, main_to, Eps)} :
               /\ mem' = r.h
               /\ gw' = Append(gw,
                      [p    |-> MAT_AT(xo["g"][FdSlot.f], FdSlot.i, FdSlot.j),
                       c0   |-> fd.c,
                       c1   |-> r.c1,
                       pert |-> {[q |-> q, d |-> Load(mem, q) - Load(snap, q)] :
                                 q \in {t \in TrainCells("m") :
                                           Load(mem, t) # Load(snap, t)}}])
               /\ fd' = [fd EXCEPT !.k = @ + 1]
               /\ pc' = IF fd.k + 1 > Len(param_slots(xo["m"], 1))
                        THEN "learn" ELSE "fd_perturb"
       ELSE /\ mem' = mem
            /\ gw' = gw
            /\ fd' = fd
            /\ pc' = "abort"
    /\ Touch(cost_acc(xo["m"], main_ti, main_to)
                \cup slot_acc(xo["m"], xo["g"], FdSlot), {"m", "g"})
    /\ UNCHANGED <<chunk, xo, rng, it, tt, snap, lw>>
    /\ UNCHANGED libVars

\* xor_learn(m, g, rate).
Learn ==
    /\ pc = "learn"
    /\ mem' = xor_learn(mem, xo["m"], xo["g"], Rate)
    /\ snap' = mem
    /\ lw' = LET sl == param_slots(xo["m"], 1)
             IN [k \in 1..Len(sl) |-> MAT_AT(xo["m"][sl[k].f], sl[k].i, sl[k].j)]
    /\ pc' = "cost_it"
    /\ Touch(xor_learn_acc(xo["m"], xo["g"]), {"m", "g"})
    /\ UNCHANGED <<chunk, xo, rng, it, fd, tt, gw>>
    /\ UNCHANGED libVars

\* An access past the floats of its chunk, in a build that checks them.
OobAbort ==
    /\ \/ /\ pc = "fd_perturb"
          /\ ~InBuffer(chunk, Acc(xo["m"][FdSlot.f], FdSlot.i, FdSlot.j))
       \/ /\ pc = "learn"
          /\ \E a \in xor_learn_acc(xo["m"], xo["g"]) : ~InBuffer(chunk, a)
    /\ pc' = "abort"
    /\ UNCHANGED <<mem, chunk, xo, rng, it, fd, tt>>
    /\ UNCHANGED ghostVars
    /\ UNCHANGED libVars

\* The loop body's cost(m, ti, to), and ++i.
CostIt == CostStep("cost_it", "loop") /\ it' = it + 1

CostEnd == CostStep("cost_end", "table") /\ it' = it

\* One row of the truth table: a0 = (i, j); forward_xor(m); y = *m->a2.es.
Table ==
    /\ pc = "table"
    /\ LET X  == xo["m"]
           h1 == Store(mem, MAT_AT(X.a0, 0, 0), (tt \div 2) * Scale)
           h2 == Store(h1, MAT_AT(X.a0, 0, 1), (tt % 2) * Scale)
       IN /\ IF forward_xor_asserts(X)
             THEN /\ mem' = forward_xor(h2, X)
                  /\ pc' = IF tt + 1 < TableRows THEN "table" ELSE "free_m"
             ELSE /\ mem' = h2
                  /\ pc' = "abort"
          /\ Touch({Acc(X.a0, 0, 0), Acc(X.a0, 0, 1), Acc(X.a2, 0, 0)}
                      \cup forward_xor_acc(X), {"m"})
    /\ tt' = tt + 1
    /\ UNCHANGED <<chunk, xo, rng, it, fd, snap, gw, lw>>
    /\ UNCHANGED libVars

\* xor_free(x).
XorFreeStep(x, here, next) ==
    /\ pc = here
    /\ \E r \in {xor_free(xo[x], chunk)} :
          /\ xo' = [xo EXCEPT ![x] = r.X]
          /\ chunk' = r.ch
    /\ pc' = next
    /\ Touch({}, {x})
    /\ UNCHANGED <<mem, rng, it, fd, tt, snap, gw, lw>>
    /\ UNCHANGED libVars

\* free(x).
FreeStructStep(x, here, next) ==
    /\ pc = here
    /\ chunk' = free(chunk, Ptr(StructBuf(x), 0))
    /\ pc' = next
    /\ Touch({}, {})
    /\ UNCHANGED <<mem, xo, rng, it, fd, tt, snap, gw, lw>>
    /\ UNCHANGED libVars

FreeM == XorFreeStep("m", "free_m", "free_ms")

FreeMs == FreeStructStep("m", "free_ms", "free_g")

FreeG == XorFreeStep("g", "free_g", "free_gs")

FreeGs == FreeStructStep("g", "free_gs", "done")

Next ==
    \/ Srand
    \/ AllocM
    \/ AllocG
    \/ InitW1
    \/ InitB1
    \/ InitW2
    \/ InitB2
    \/ Cost0
    \/ TrainLoop
    \/ FdBase
    \/ FdPerturb
    \/ FdEstimate
    \/ OobAbort
    \/ Learn
    \/ CostIt
    \/ CostEnd
    \/ Table
    \/ FreeM
    \/ FreeMs
    \/ FreeG
    \/ FreeGs

Spec == Init /\ [][Next]_vars

\* ------------------------------------------------ claims about main

\* The chunks main obtains from malloc: 14 matrix buffers and 2 structs.
HeapBufs == Bufs \ {TD}

\* Every cell of every chunk, slack included.
AllCells == UNION {{Ptr(b, o) : o \in 0..(Len(mem[b]) - 1)} : b \in DOMAIN mem}

\* finite_diff has returned: main stands before xor_learn.
FdReturned == pc = "learn"

\* xor_learn has returned: main stands before the loop body's cost.
LearnReturned == pc = "cost_it"

\* C1: when finite_diff returns, every entry (r, c) of g.w1, g.b1, g.w2 and
\* g.b2 has been written during the call with (c1 - c0) / eps, c0 the
\* baseline cost and c1 the cost computed with only the same entry of the
\* parameter model raised by eps.
C1_EverySlotEstimated ==
    FdReturned =>
        \A f \in Range(ParamFields) :
            \A r \in 0..(xo["g"][f].rows - 1), c \in 0..(xo["g"][f].cols - 1) :
                \E k \in DOMAIN gw :
                    /\ gw[k].p = MAT_AT(xo["g"][f], r, c)
                    /\ gw[k].c0 = fd.c
                    /\ gw[k].pert = {[q |-> MAT_AT(xo["m"][f], r, c), d |-> Eps]}
                    /\ Load(mem, gw[k].p) = FDiv(gw[k].c1 - gw[k].c0, Eps)

\* C2: when xor_learn returns, every entry of m.w1, m.b1, m.w2 and m.b2 was
\* written exactly once and holds its old value minus rate times the same
\* entry of g, and no other cell of memory has changed.
C2_EveryParamUpdatedOnce ==
    LearnReturned =>
        /\ \A f \in Range(ParamFields) :
              \A r \in 0..(xo["m"][f].rows - 1), c \in 0..(xo["m"][f].cols - 1) :
                  LET q == MAT_AT(xo["m"][f], r, c)
                  IN /\ Cardinality({k \in DOMAIN lw : lw[k] = q}) = 1
                     /\ Load(mem, q) = Load(snap, q)
                            - FMul(Rate, Load(snap, MAT_AT(xo["g"][f], r, c)))
        /\ \A q \in AllCells \ TrainCells("m") : Load(mem, q) = Load(snap, q)

\* C3: every element access MAT_AT(M, i, j) keeps 0 <= i < M.rows and
\* 0 <= j < M.cols, and its offset lies inside the buffer M addresses.
C3_AccessesInBounds ==
    \A a \in acc : InIndex(a) /\ InBuffer(chunk, a)

\* C8: every chunk main obtained is released at most once, no access reaches
\* a released chunk, and when main returns each of the 14 matrix buffers and
\* 2 structs has been released exactly once.
C8_ReleasedOnceAtExit ==
    /\ ~uaf
    /\ \A b \in HeapBufs : chunk[b].frees <= 1 /\ chunk[b].st # "corrupt"
    /\ chunk[TD] = StaticChunk
    /\ pc = "done" =>
          \A b \in HeapBufs : chunk[b].st = "freed" /\ chunk[b].frees = 1

\* main has returned after training, with every chunk it obtained released.
C8_Witness ==
    /\ pc = "done"
    /\ it = MaxIter
    /\ Cardinality({b \in HeapBufs : chunk[b].frees = 1}) = 16

\* ------------------------------------- library calls studied on their own

\* The variables of main that a study of one call leaves alone.
IdleInit ==
    /\ rng = 0
    /\ it = 0
    /\ fd = [c |-> 0, saved |-> 0, k |-> 0]
    /\ tt = 0
    /\ gw = <<>>
    /\ lw = <<>>

idleVars == <<rng, it, fd, tt, gw, lw>>

\* The chunks once xor_alloc has run for the structs in xs.
ChunksOf(xs) ==
    [b \in Bufs |->
        IF b = TD THEN StaticChunk
        ELSE IF b[1] \in xs /\ b[2] = "struct" THEN malloc_chunk(0)
        ELSE IF b[1] \in xs THEN malloc_chunk(Shape[b[2]][1] * Shape[b[2]][2])
        ELSE NoChunk]

\* A heap for them: the floats of field f of struct x all hold v[x][f], the
\* slack of every chunk holds 0.
HeapOf(xs, v) ==
    [b \in Bufs |->
        IF b = TD THEN td
        ELSE IF b[1] \in xs /\ b[2] # "struct"
        THEN [k \in 1..Usable(Shape[b[2]][1] * Shape[b[2]][2]) |->
                 IF k <= Shape[b[2]][1] * Shape[b[2]][2] THEN v[b[1]][b[2]] ELSE 0]
        ELSE <<>>]

\* ---- forward_xor, called again and again on one input

\* The calls of forward_xor in a row.
FwdCalls == 2

\* The values mat_fill gives a parameter matrix before the calls.
FillVals == {-Scale, 0, Scale}

InitFwd ==
    /\ pc = "fwd"
    /\ xo = [x \in Structs |-> IF x = "m" THEN xor_alloc("m") ELSE NoXor]
    /\ chunk = ChunksOf({"m"})
    /\ \E w \in [Range(ParamFields) -> FillVals], row \in 0..(td_rows - 1) :
          mem = mat_copy(
                    HeapOf({"m"}, [x \in {"m"} |->
                        [f \in Range(Fields) |->
                            IF f \in Range(ParamFields) THEN w[f] ELSE 0]]),
                    xor_alloc("m").a0, mat_row(main_ti, row))
    /\ snap = mem
    /\ acc = {}
    /\ uaf = FALSE
    /\ call = <<>>
    /\ mem2 = <<>>
    /\ hist = <<>>
    /\ IdleInit

ForwardCall ==
    /\ pc = "fwd"
    /\ Len(hist) < FwdCalls
    /\ forward_xor_asserts(xo["m"])
    /\ mem' = forward_xor(mem, xo["m"])
    /\ hist' = Append(hist, Load(mem', MAT_AT(xo["m"].a2, 0, 0)))
    /\ Touch(forward_xor_acc(xo["m"]), {"m"})
    /\ UNCHANGED <<pc, chunk, xo, snap, call, mem2>>
    /\ UNCHANGED idleVars

NextFwd == ForwardCall

SpecFwd == InitFwd /\ [][NextFwd]_vars

\* C5: with frozen parameters and a1, a2 zeroed before the first call, two
\* calls of forward_xor in a row with the same a0 leave the same a2.
C5_ForwardIdempotent ==
    Len(hist) >= 2 => hist[2] = hist[1]

\* ---- finite_diff, run twice from the same parameters

\* The values the activation matrices may hold before a call: 0.0, 0.5, 1.0.
ActVals == {0, Scale \div 2, Scale}

\* The parameters main's four initialisation calls leave, from one seed.
InitParams(h, seed, X) ==
    Let(mat_xavier_init(h, seed, X.w1, X.a0.cols, X.a1.cols), LAMBDA r1 :
    Let(mat_rand(r1.h, r1.r, X.b1, BiasLow, BiasHigh), LAMBDA r2 :
    Let(mat_xavier_init(r2.h, r2.r, X.w2, X.a1.cols, X.a2.cols), LAMBDA r3 :
        mat_rand(r3.h, r3.r, X.b2, BiasLow, BiasHigh).h)))

\* Heap h with every float of a0, a1 and a2 of X set to v.
WithActs(h, X, v) ==
    [b \in DOMAIN h |->
        IF b \in {X.a0.es.buf, X.a1.es.buf, X.a2.es.buf}
        THEN [k \in 1..Len(h[b]) |-> IF k <= chunk[b].size THEN v ELSE h[b][k]]
        ELSE h[b]]

InitDet ==
    /\ pc = "det"
    /\ xo = [x \in Structs |-> xor_alloc(x)]
    /\ chunk = ChunksOf(Structs)
    /\ \E seed \in 0..MaxSeed, v1 \in ActVals, v2 \in ActVals :
          \E h \in {InitParams(HeapOf(Structs,
                                      [x \in Structs |-> [f \in Range(Fields) |-> 0]]),
                               seed, xor_alloc("m"))} :
              /\ mem = WithActs(h, xor_alloc("m"), v1)
              /\ mem2 = WithActs(h, xor_alloc("m"), v2)
    /\ snap = mem
    /\ acc = {}
    /\ uaf = FALSE
    /\ call = <<>>
    /\ hist = <<>>
    /\ IdleInit

\* finite_diff(m, g, ti, to, eps) in each of the two runs.
DetCall ==
    /\ pc = "det"
    /\ cost_ok(xo["m"], main_ti, main_to)
    /\ mem' = finite_diff(mem, xo["m"], xo["g"], main_ti, main_to, Eps)
    /\ mem2' = finite_diff(mem2, xo["m"], xo["g"], main_ti, main_to, Eps)
    /\ pc' = "det_ret"
    /\ Touch(cost_acc(xo["m"], main_ti, main_to)
                \cup xor_learn_acc(xo["m"], xo["g"]), {"m", "g"})
    /\ UNCHANGED <<chunk, xo, snap, call, hist>>
    /\ UNCHANGED idleVars

\* finite_diff's access past the floats of b1, in a build that checks them.
DetAbort ==
    /\ pc = "det"
    /\ \E a \in xor_learn_acc(xo["m"], xo["g"]) : ~InBuffer(chunk, a)
    /\ pc' = "abort"
    /\ UNCHANGED <<mem, chunk, xo, call, mem2, hist>>
    /\ UNCHANGED ghostVars
    /\ UNCHANGED idleVars

NextDet == DetCall \/ DetAbort

SpecDet == InitDet /\ [][NextDet]_vars

\* C4: two calls of finite_diff that start with equal w1, b1, w2, b2, equal
\* training matrices and equal eps write equal values into every gradient
\* slot, whatever a0, a1 and a2 held before each call.
C4_GradientDeterministic ==
    pc = "det_ret" =>
        \A q \in TrainCells("g") : Load(mem, q) = Load(mem2, q)

\* ---- mat_dot over every shape of dst, a and b

\* The rows and the columns of a matrix handed to mat_dot: 1..MaxDim.
MaxDim == 3

DotBufs == {<<"dot", "dst">>, <<"dot", "a">>, <<"dot", "b">>}

InitDot ==
    /\ pc = "dot"
    /\ \E dr \in 1..MaxDim, dc \in 1..MaxDim, ar \in 1..MaxDim,
          ac \in 1..MaxDim, br \in 1..MaxDim, bc \in 1..MaxDim :
          /\ call = [dst |-> mat_alloc(<<"dot", "dst">>, dr, dc),
                     a   |-> mat_alloc(<<"dot", "a">>, ar, ac),
                     b   |-> mat_alloc(<<"dot", "b">>, br, bc)]
          /\ chunk = [n \in DotBufs |->
                         malloc_chunk(call[n[2]].rows * call[n[2]].cols)]
          /\ mem = [n \in DotBufs |->
                       malloc_cells(call[n[2]].rows * call[n[2]].cols,
                                    IF n[2] = "dst" THEN 0 ELSE Scale)]
    /\ xo = [x \in Structs |-> NoXor]
    /\ snap = mem
    /\ acc = {}
    /\ uaf = FALSE
    /\ mem2 = <<>>
    /\ hist = <<>>
    /\ IdleInit

\* mat_dot(dst, a, b): the assertions, then the loops.
MatDotCall ==
    /\ pc = "dot"
    /\ IF mat_dot_asserts(call.dst, call.a, call.b)
       THEN /\ mem' = mat_dot(mem, call.dst, call.a, call.b)
            /\ pc' = "dot_ret"
            /\ acc' = mat_dot_acc(call.dst, call.a, call.b)
       ELSE /\ mem' = mem
            /\ pc' = "dot_failed"
            /\ acc' = {}
    /\ snap' = mem
    /\ UNCHANGED <<chunk, xo, uaf, call, mem2, hist>>
    /\ UNCHANGED idleVars

NextDot == MatDotCall

SpecDot == InitDot /\ [][NextDot]_vars

\* C6: for all shapes of dst, a and b, mat_dot fails its assertion if and
\* only if a.cols # b.rows or dst.rows # a.rows or dst.cols # b.cols, and
\* when it fails no element of dst (or of any matrix) has been written.
C6_DotFailsIffMismatch ==
    pc # "dot" =>
        /\ pc = "dot_failed" <=> \/ call.a.cols # call.b.rows
                                 \/ call.dst.rows # call.a.rows
                                 \/ call.dst.cols # call.b.cols
        /\ pc = "dot_failed" => mem = snap
        /\ pc = "dot_ret" => \A a \in acc : InIndex(a) /\ InBuffer(chunk, a)

\* mat_dot has failed on shapes only its last assertion rejects.
C6_Witness ==
    /\ pc = "dot_failed"
    /\ call.a.cols = call.b.rows
    /\ call.dst.rows = call.a.rows
    /\ call.dst.cols # call.b.cols

\* ---- xor_free, called in any order on the two networks

\* The calls of xor_free in one sequence.
MaxFreeCalls == 4

InitFree ==
    /\ pc = "free_calls"
    /\ xo = [x \in Structs |-> xor_alloc(x)]
    /\ chunk = ChunksOf(Structs)
    /\ \E v \in [Structs -> Garbage] :
          mem = HeapOf(Structs, [x \in Structs |-> [f \in Range(Fields) |-> v[x]]])
    /\ snap = mem
    /\ acc = {}
    /\ uaf = FALSE
    /\ call = <<>>
    /\ mem2 = <<>>
    /\ hist = <<>>
    /\ IdleInit

\* The chunks a call has handed to free().
Released(ch0, ch1) == {b \in DOMAIN ch0 : ch1[b].frees > ch0[b].frees}

\* xor_free(x), x one of the two networks, freed before or not.
XorFreeCall ==
    /\ pc = "free_calls"
    /\ Len(hist) < MaxFreeCalls
    /\ \E x \in Structs :
          \E r \in {xor_free(xo[x], chunk)} :
              /\ xo' = [xo EXCEPT ![x] = r.X]
              /\ chunk' = r.ch
              /\ hist' = Append(hist, [x        |-> x,
                                       released |-> Released(chunk, r.ch),
                                       same     |-> r.X = xo[x] /\ r.ch = chunk])
    /\ UNCHANGED <<pc, mem, call, mem2>>
    /\ UNCHANGED ghostVars
    /\ UNCHANGED idleVars

NextFree == XorFreeCall

SpecFree == InitFree /\ [][NextFree]_vars

\* Call k of the sequence is the first on its network.
FirstFree(k) == \A j \in 1..(k - 1) : hist[j].x # hist[k].x

\* C7: in any sequence of xor_free calls on networks set up by xor_alloc,
\* the first call on a network frees each of its seven matrix buffers once
\* and leaves owns_matrices = 0 and every matrix with rows = cols = stride
\* = 0 and a null pointer; every later call frees nothing and changes
\* nothing; no buffer is ever freed twice.
C7_XorFreeOnce ==
    /\ \A k \in 1..Len(hist) :
          IF FirstFree(k) THEN hist[k].released = MatBufs(hist[k].x)
                          ELSE hist[k].released = {} /\ hist[k].same
    /\ \A x \in Structs :
          IF \E k \in 1..Len(hist) : hist[k].x = x
          THEN /\ xo[x].owns_matrices = 0
               /\ \A f \in Range(Fields) : xo[x][f] = Mat(0, 0, 0, NULL)
               /\ \A b \in MatBufs(x) : chunk[b].st = "freed" /\ chunk[b].frees = 1
          ELSE /\ xo[x] = xor_alloc(x)
               /\ \A b \in MatBufs(x) : chunk[b].st = "live" /\ chunk[b].frees = 0
    /\ \A b \in DOMAIN chunk : chunk[b].frees <= 1 /\ chunk[b].st # "corrupt"

\* Both networks have been freed, one of them twice.
C7_Witness ==
    /\ \A x \in Structs : \E k \in 1..Len(hist) : hist[k].x = x
    /\ \E k \in 1..Len(hist) : ~FirstFree(k)

\* ---- mat_free on a view

\* The chunk of the matrix a view is taken from.
ViewOwner == <<"view", "a">>

ViewBufs == {ViewOwner, TD}

InitView ==
    /\ pc = "view_pick"
    /\ \/ \E r \in 1..MaxDim, c \in 1..MaxDim, v \in Garbage :
             /\ call = [owner |-> mat_alloc(ViewOwner, r, c), view |-> Mat(0, 0, 0, NULL)]
             /\ chunk = [b \in ViewBufs |->
                            IF b = TD THEN StaticChunk ELSE malloc_chunk(r * c)]
             /\ mem = [b \in ViewBufs |->
                          IF b = TD THEN td ELSE malloc_cells(r * c, v)]
       \/ \E o \in {main_ti, main_to} :
             /\ call = [owner |-> o, view |-> Mat(0, 0, 0, NULL)]
             /\ chunk = [b \in ViewBufs |-> IF b = TD THEN StaticChunk ELSE NoChunk]
             /\ mem = [b \in ViewBufs |-> IF b = TD THEN td ELSE <<>>]
    /\ xo = [x \in Structs |-> NoXor]
    /\ snap = mem
    /\ acc = {}
    /\ uaf = FALSE
    /\ mem2 = <<>>
    /\ hist = <<>>
    /\ IdleInit

\* view = mat_row(owner, row)
MatRowView ==
    /\ pc = "view_pick"
    /\ \E row \in 0..(call.owner.rows - 1) :
          call' = [call EXCEPT !.view = mat_row(call.owner, row)]
    /\ pc' = "view_made"
    /\ UNCHANGED <<mem, chunk, xo, mem2, hist>>
    /\ UNCHANGED ghostVars
    /\ UNCHANGED idleVars

\* view = ti or view = to: the views main makes over td.
TdView ==
    /\ pc = "view_pick"
    /\ call.owner.es.buf = TD
    /\ call' = [call EXCEPT !.view = call.owner]
    /\ pc' = "view_made"
    /\ UNCHANGED <<mem, chunk, xo, mem2, hist>>
    /\ UNCHANGED ghostVars
    /\ UNCHANGED idleVars

\* mat_free(&view): free(view.es) when it is not null, then the fields zeroed.
MatFreeView ==
    /\ pc = "view_made"
    /\ chunk' = mat_free_chunks(chunk, call.view)
    /\ call' = [call EXCEPT !.view = mat_free(call.view)]
    /\ hist' = Append(hist, call.view)
    /\ pc' = "view_freed"
    /\ UNCHANGED <<mem, xo, mem2>>
    /\ UNCHANGED ghostVars
    /\ UNCHANGED idleVars

\* free() of a pointer malloc never returned, in an allocator that checks.
ViewFreeAbort ==
    /\ pc = "view_made"
    /\ call.view.es # NULL
    /\ ~free_defined(chunk, call.view.es)
    /\ pc' = "abort"
    /\ UNCHANGED <<mem, chunk, xo, call, mem2, hist>>
    /\ UNCHANGED ghostVars
    /\ UNCHANGED idleVars

NextView == MatRowView \/ TdView \/ MatFreeView \/ ViewFreeAbort

SpecView == InitView /\ [][NextView]_vars

\* C9: mat_free on a view (a mat_row result, or ti / to over td) is a no-op
\* or an explicit failure: the buffer the view borrows is neither released
\* nor invalidated.
C9_ViewFreeKeepsBuffer ==
    pc = "view_freed" =>
        /\ chunk[call.owner.es.buf].st \in {"live", "static"}
        /\ chunk[call.owner.es.buf].frees = 0

\* ---- the perturbations of finite_diff, inside main

\* C11: during finite_diff, at every cost evaluation after the baseline
\* exactly one entry of m.w1, m.b1, m.w2, m.b2 differs from its value at
\* call entry, and it is higher by eps; when finite_diff returns every entry
\* of the four matrices holds its value at call entry.
C11_OnePerturbationRestored ==
    /\ \A k \in DOMAIN gw :
          \E q \in TrainCells("m") : gw[k].pert = {[q |-> q, d |-> Eps]}
    /\ FdReturned =>
          \A q \in TrainCells("m") : Load(mem, q) = Load(snap, q)

\* ---- the training loop of main

\* The positions of main inside the body of the training loop.
LoopBody == {"fd_base", "fd_perturb", "fd_estimate", "learn", "cost_it"}

\* The positions of main after the training loop.
LoopLeft == {"cost_end", "table", "free_m", "free_ms", "free_g", "free_gs", "done"}

\* Every position of main.
Positions ==
    {"start", "alloc_m", "alloc_g", "init_w1", "init_b1", "init_w2", "init_b2",
     "cost0", "loop", "abort"} \cup LoopBody \cup LoopLeft

\* main has returned, or the run was stopped.
MainFinal == {"done", "abort"}

\* main moves on from the statement it stands at. Every step of Next changes
\* <<pc, tt>>, and every position outside MainFinal has a step of Next.
MainStep ==
    /\ pc \notin MainFinal
    /\ pc' \in Positions
    /\ tt' \in 0..TableRows

\* main is one sequential thread that nothing suspends: while it has not
\* returned or been stopped, it executes its next statement.
LiveSpec == Spec /\ WF_<<pc, tt>>(MainStep)

\* C12: the training loop ends after exactly MaxIter iterations (MaxIter
\* standing for the 100*1000 of the source): the body is entered only while
\* fewer than MaxIter iterations are complete, the loop is left only with
\* MaxIter complete, whatever the cost; in each iteration finite_diff has
\* estimated every slot before xor_learn runs, and xor_learn subtracts rate
\* times the estimate of that same iteration; and main does leave the loop,
\* in every run that the out-of-bounds access of finite_diff and xor_learn
\* (C3) has not stopped.
C12_LoopRunsMaxIter ==
    /\ [](/\ it <= MaxIter
          /\ pc \in LoopBody => it < MaxIter
          /\ pc \in LoopLeft => it = MaxIter
          /\ pc \in {"learn", "cost_it"} =>
                /\ Len(gw) = Len(param_slots(xo["m"], 1))
                /\ \A k \in DOMAIN gw : gw[k].c0 = fd.c
          /\ pc = "cost_it" =>
                /\ Len(lw) = Len(gw)
                /\ \A k \in DOMAIN lw :
                      Load(mem, lw[k]) =
                          Load(snap, lw[k])
                              - FMul(Rate, FDiv(gw[k].c1 - gw[k].c0, Eps)))
    /\ <>(pc = "abort" \/ (pc \in LoopLeft /\ it = MaxIter))

\* main has left the loop after MaxIter iterations, the last of them with
\* every slot estimated and updated.
C12_Witness ==
    /\ pc = "cost_end"
    /\ it = MaxIter
    /\ it > 0
    /\ Len(gw) = Len(param_slots(xo["m"], 1))
    /\ Len(lw) = Len(gw)

====
